---------------------------- MODULE Spec2Model ----------------------------
(***************************************************************************)
(* Model of market_sentiment_analyzer.py: the three-stage pipeline         *)
(* MarketSentimentAnalyzer.run = get_stock_code -> fetch_news ->           *)
(* analyze_sentiment, each stage wrapped in a langfuse span.               *)
(*                                                                         *)
(* A Python string is a sequence of tokens: a token is a literal of the    *)
(* source ("No news found.", "Error fetching news: "), the newline "\n",   *)
(* a title character ("a", "b"), or the text of an exception.  String      *)
(* concatenation and "\n".join are sequence concatenation, so the empty    *)
(* string is << >> and a prefix test is a test on the sequence.            *)
(***************************************************************************)
EXTENDS Naturals, Sequences, FiniteSets, TLC

VARIABLES
    pc,            \* position of run(): idle, resolve, fetch, fetched, analyze, done
    company_name,  \* argument of run()
    directory,     \* self.stock_code_lookup
    collector,     \* the tracing collector: "up", or "down" (span calls may raise)
    stock_code,    \* run()'s local stock_code
    response,      \* fetch_news's local response (the HTTP answer), while in scope
    news,          \* run()'s local news
    httpRequests,  \* tickers of the GET requests issued by this run, in order
    llmCalls,      \* prompts sent to the LLM by this run, in order
    llmResponse,   \* the completion the LLM gave to this run's call
    spans,         \* spans opened by this run, in order, with how they went
    outcome,       \* running, returned, raised
    result,        \* what run() returned
    raised         \* the exception run() let through ("" when none)

vars == <<pc, company_name, directory, collector, stock_code, response, news,
          httpRequests, llmCalls, llmResponse, spans, outcome, result, raised>>

----------------------------------------------------------------------------
(* Bounds and program constants *)

\* Longest `news` array the news endpoint answers with.
MaxItems == 6

\* news_items[:5]
NewsCount == 5

----------------------------------------------------------------------------
(* Strings *)

Unset == <<"<unset>">>

NoNewsFound == <<"No news found.">>

ErrorPrefix == <<"Error fetching news: ">>

RECURSIVE Join(_, _)
\* sep.join(parts)
Join(sep, parts) ==
    IF parts = << >> THEN << >>
    ELSE IF Len(parts) = 1 THEN Head(parts)
    ELSE Head(parts) \o sep \o Join(sep, Tail(parts))

\* s.startswith(p)
StartsWith(s, p) == Len(s) >= Len(p) /\ SubSeq(s, 1, Len(p)) = p

\* seq[:n]
Take(seq, n) == SubSeq(seq, 1, IF Len(seq) < n THEN Len(seq) ELSE n)

----------------------------------------------------------------------------
(* Company directory *)

stock_code_lookup ==
    ("Apple Inc" :> "AAPL") @@ ("Microsoft" :> "MSFT") @@ ("Google" :> "GOOGL")

\* Names run() is called with: the keys, other spellings of keys, other names.
Names == {"Apple Inc", "Microsoft", "Google",
          "microsoft", "GOOGLE", "Unknown Corp", "AAPL"}

\* str.lower() on Names.
Lower(name) ==
    CASE name = "Apple Inc" -> "apple inc"
      [] name = "Microsoft" -> "microsoft"
      [] name = "Google" -> "google"
      [] name = "GOOGLE" -> "google"
      [] name = "AAPL" -> "aapl"
      [] name = "Unknown Corp" -> "unknown corp"
      [] OTHER -> name

\* A lookup that ignores case.
LookupIgnoringCase(dir, name) ==
    IF \E k \in DOMAIN dir : Lower(k) = Lower(name)
    THEN dir[CHOOSE k \in DOMAIN dir : Lower(k) = Lower(name)]
    ELSE "Unknown"

\* self.stock_code_lookup.get(company_name, "Unknown")
Lookup(dir, name) ==
    IF name \in DOMAIN dir THEN dir[name] ELSE "Unknown"

----------------------------------------------------------------------------
(* Spans: `with langfuse.trace(name=...):` *)

\* How opening (the call and __enter__) or closing (__exit__) a span can go: with
\* the collector up every span call succeeds, with it down any of them may raise.
SpanOutcomes == IF collector = "up" THEN {"ok"} ELSE {"ok", "raise"}

Span(name, open, close) == [name |-> name, open |-> open, close |-> close]

SpanFailed(s) == s.open = "raise" \/ s.close = "raise"

----------------------------------------------------------------------------
(* News endpoint *)

\* An item of the `news` array: an object with a string title, an object with no
\* title, an object whose title is not a string, or something that is no object.
ItemKinds == {"a", "b", "notitle", "nonstring", "nonobject"}

RECURSIVE SeqsUpTo(_, _)
SeqsUpTo(S, n) ==
    IF n = 0 THEN {<< >>}
    ELSE LET shorter == SeqsUpTo(S, n - 1)
         IN  shorter \cup {Append(s, x) : s \in {t \in shorter : Len(t) = n - 1}, x \in S}

\* data.get("news", []) when it is falsy and no list: the key is missing (the
\* default []), or its value is null, false, 0, "" or {}.
FalsyNews == {"missing", "null", "false", "zero", "emptystr", "emptyobj"}

\* Values of `news` that are truthy and no list: true, a number, a non-empty
\* string, a non-empty object.
TruthyNonList == {"true", "num", "str", "obj"}

\* Bodies of an answer that raise_for_status lets pass.
Bodies ==
    {[body |-> b, news |-> "missing", items |-> << >>] :
        b \in {"notjson", "array", "string", "number", "null"}}
    \cup {[body |-> "object", news |-> n, items |-> << >>] :
        n \in FalsyNews \cup TruthyNonList}
    \cup {[body |-> "object", news |-> "list", items |-> i] :
        i \in SeqsUpTo(ItemKinds, MaxItems)}

Answer(net, status, b) ==
    [net |-> net, status |-> status, body |-> b.body, news |-> b.news, items |-> b.items]

NoBody == [body |-> "notjson", news |-> "missing", items |-> << >>]

\* What requests.get can come back with.
Responses ==
    {Answer("error", 0, NoBody)}
    \cup {Answer("ok", s, NoBody) : s \in {404, 500}}
    \cup {Answer("ok", 200, b) : b \in Bodies}

NoResponse == Answer("none", 0, NoBody)

\* item.get("title", "")
Title(item) ==
    CASE item = "a" -> <<"a">>
      [] item = "b" -> <<"b">>
      [] item = "notitle" -> << >>
      [] OTHER -> <<"<not a string>">>

Titles(items) == [i \in DOMAIN items |-> Title(items[i])]

\* The text of the exception alone.
FetchErrorBare(where) == <<where>>

\* f"Error fetching news: {str(e)}", e named by the call that raised it
FetchError(where) == ErrorPrefix \o <<where>>

\* fetch_news with no limit on the number of items.
fetch_news_unlimited(r) ==
    IF r.net = "error" THEN FetchError("requests.get")
    ELSE IF r.status >= 400 THEN FetchError("raise_for_status")
    ELSE IF r.body = "notjson" THEN FetchError("response.json")
    ELSE IF r.body # "object" THEN FetchError("data.get")
    ELSE IF r.news \in FalsyNews \/ (r.news = "list" /\ r.items = << >>) THEN NoNewsFound
    ELSE IF r.news \in {"true", "num", "obj"} THEN FetchError("news_items[:5]")
    ELSE IF r.news = "str" THEN FetchError("item.get")
    ELSE LET first == r.items
             text == Join(<<"\n">>, Titles(first))
         IN  IF \E i \in DOMAIN first : first[i] = "nonobject" THEN FetchError("item.get")
             ELSE IF \E i \in DOMAIN first : first[i] = "nonstring" THEN FetchError("join")
             ELSE IF text # << >> THEN text ELSE NoNewsFound

\* fetch_news that hands the joined titles on even when they are empty.
fetch_news_no_fallback(r) ==
    IF r.net = "error" THEN FetchError("requests.get")
    ELSE IF r.status >= 400 THEN FetchError("raise_for_status")
    ELSE IF r.body = "notjson" THEN FetchError("response.json")
    ELSE IF r.body # "object" THEN FetchError("data.get")
    ELSE IF r.news \in FalsyNews \/ (r.news = "list" /\ r.items = << >>) THEN NoNewsFound
    ELSE IF r.news \in {"true", "num", "obj"} THEN FetchError("news_items[:5]")
    ELSE IF r.news = "str" THEN FetchError("item.get")
    ELSE LET first == Take(r.items, NewsCount)
         IN  IF \E i \in DOMAIN first : first[i] = "nonobject" THEN FetchError("item.get")
             ELSE IF \E i \in DOMAIN first : first[i] = "nonstring" THEN FetchError("join")
             ELSE Join(<<"\n">>, Titles(first))

\* The body of fetch_news (the try/except inside the span): the string returned
\* for the answer r of requests.get.
fetch_news(r) ==
    IF r.net = "error" THEN FetchError("requests.get")
    ELSE IF r.status >= 400 THEN FetchError("raise_for_status")
    ELSE IF r.body = "notjson" THEN FetchError("response.json")
    ELSE IF r.body # "object" THEN FetchError("data.get")
    ELSE IF r.news \in FalsyNews \/ (r.news = "list" /\ r.items = << >>) THEN NoNewsFound
    ELSE IF r.news \in {"true", "num", "obj"} THEN FetchError("news_items[:5]")
    ELSE IF r.news = "str" THEN FetchError("item.get")
    ELSE LET first == Take(r.items, NewsCount)
             text == Join(<<"\n">>, Titles(first))
         IN  IF \E i \in DOMAIN first : first[i] = "nonobject" THEN FetchError("item.get")
             ELSE IF \E i \in DOMAIN first : first[i] = "nonstring" THEN FetchError("join")
             ELSE IF text # << >> THEN text ELSE NoNewsFound

----------------------------------------------------------------------------
(* Sentiment extractor *)

\* The names of response_schemas.
Fields == {"company_name", "stock_code", "newsdesc", "sentiment", "people_names",
           "places_names", "other_companies_referred", "related_industries",
           "market_implications", "confidence_score"}

\* "Classify the sentiment as Positive, Negative, or Neutral."
Sentiments == {"Positive", "Negative", "Neutral"}

\* A prompt that puts the ticker where the name goes.
PromptTickerForName(name, code, text) ==
    [company_name |-> code, stock_code |-> code, news |-> text]

\* sentiment_prompt_template rendered by sentiment_chain.run(company_name=...,
\* stock_code=..., news=...): the three input variables it embeds.
Prompt(name, code, text) == [company_name |-> name, stock_code |-> code, news |-> text]

\* A completion: the call fails ("api_error") or gives a text; the text is a JSON
\* object or not (json); the object has the keys `present`, the values below for
\* three of them, and values of another JSON type than the schema's `type` for the
\* keys `wrongType`.
Completions ==
    {c \in [kind : {"text", "api_error"}, json : BOOLEAN,
            present : {Fields, Fields \ {"sentiment"}, Fields \ {"confidence_score"}, {}},
            company_name : {"Microsoft", "Contoso"},
            stock_code : {"MSFT", "AAPL"},
            sentiment : Sentiments \cup {"Mixed"},
            wrongType : {{}, {"confidence_score"}, {"people_names"}}] :
        /\ (c.kind = "api_error" => ~c.json)
        /\ (~c.json => c.present = {})
        /\ (c.present = {} =>
               c.company_name = "Contoso" /\ c.stock_code = "AAPL" /\ c.wrongType = {})
        /\ ("sentiment" \notin c.present => c.sentiment = "Mixed")
        /\ c.wrongType \subseteq c.present}

NoCompletion ==
    [kind |-> "none", json |-> FALSE, present |-> {}, company_name |-> "Contoso",
     stock_code |-> "AAPL", sentiment |-> "Mixed", wrongType |-> {}]

Profile(c) ==
    [present |-> c.present, company_name |-> c.company_name,
     stock_code |-> c.stock_code, sentiment |-> c.sentiment, wrongType |-> c.wrongType]

NoProfile == Profile(NoCompletion)

\* Values a stage hands back: a return value or an exception.
Return(v) == [kind |-> "return", val |-> v, exc |-> ""]
Raise(e, dummy) == [kind |-> "raise", val |-> dummy, exc |-> e]

\* A chain that returns the completion without parsing it: no field is read.
sentiment_chain_run_unparsed(c) ==
    IF c.kind = "api_error" THEN Raise("APIError", NoProfile)
    ELSE Return(NoProfile)

\* sentiment_chain.run: the LLM call, then output_parser on the completion.  The
\* parser built from response_schemas takes the JSON object out of the text and
\* requires every schema name as a key; `type` and `description` of a
\* ResponseSchema only word the format instructions of the prompt.
sentiment_chain_run(c) ==
    IF c.kind = "api_error" THEN Raise("APIError", NoProfile)
    ELSE IF ~c.json THEN Raise("OutputParserException", NoProfile)
    ELSE IF ~(Fields \subseteq c.present) THEN Raise("OutputParserException", NoProfile)
    ELSE Return(Profile(c))

----------------------------------------------------------------------------
(* run() *)

NoResult == [kind |-> "none", error |-> << >>, profile |-> NoProfile]

\* The error object worded with the sentinel in place of the name.
ErrorObjectWithSentinel(name) ==
    [kind |-> "error", error |-> <<"Stock code for ", "Unknown", " not found.">>,
     profile |-> NoProfile]

\* {"error": f"Stock code for {company_name} not found."}
ErrorObject(name) ==
    [kind |-> "error", error |-> <<"Stock code for ", name, " not found.">>,
     profile |-> NoProfile]

ProfileResult(p) == [kind |-> "profile", error |-> << >>, profile |-> p]

\* The state of a run that has not started.
Fresh ==
    /\ stock_code = "<unset>"
    /\ response = NoResponse
    /\ news = Unset
    /\ httpRequests = << >>
    /\ llmCalls = << >>
    /\ llmResponse = NoCompletion
    /\ spans = << >>
    /\ outcome = "running"
    /\ result = NoResult
    /\ raised = ""

Init ==
    /\ pc = "idle"
    /\ company_name = "<none>"
    /\ directory = stock_code_lookup
    /\ collector = "up"
    /\ Fresh

\* As Init, with a tracing collector that may be down.
InitTrace ==
    /\ pc = "idle"
    /\ company_name = "<none>"
    /\ directory = stock_code_lookup
    /\ collector \in {"up", "down"}
    /\ Fresh

\* analyzer.run(name) is called.
Call(name) ==
    /\ pc = "idle"
    /\ pc' = "resolve"
    /\ company_name' = name
    /\ UNCHANGED <<directory, collector, stock_code, response, news, httpRequests,
                   llmCalls, llmResponse, spans, outcome, result, raised>>

\* A span failed: the exception leaves the stage and leaves run().
RunRaises(e) ==
    /\ pc' = "done"
    /\ outcome' = "raised"
    /\ raised' = e

\* stock_code = self.get_stock_code(company_name) and the test on "Unknown".
Resolve ==
    /\ pc = "resolve"
    /\ \E open \in SpanOutcomes, close \in SpanOutcomes :
           /\ spans' = Append(spans, Span("Stock Code Extraction", open, close))
           /\ IF open = "raise" \/ close = "raise"
              THEN /\ RunRaises("SpanError")
                   /\ UNCHANGED <<stock_code, result>>
              ELSE LET code == Lookup(directory, company_name)
                   IN  /\ stock_code' = code
                       /\ IF code = "Unknown"
                          THEN /\ pc' = "done"
                               /\ outcome' = "returned"
                               /\ result' = ErrorObject(company_name)
                               /\ UNCHANGED raised
                          ELSE /\ pc' = "fetch"
                               /\ UNCHANGED <<outcome, result, raised>>
           /\ UNCHANGED <<company_name, directory, collector, response, news, httpRequests,
                          llmCalls, llmResponse>>

\* news = self.fetch_news(stock_code): one GET, answered by r.
FetchNews ==
    /\ pc = "fetch"
    /\ \E open \in SpanOutcomes, close \in SpanOutcomes, r \in Responses :
           /\ spans' = Append(spans, Span("News Fetching", open, close))
           /\ IF open = "raise"
              THEN /\ RunRaises("SpanError")
                   /\ UNCHANGED <<response, news, httpRequests>>
              ELSE /\ httpRequests' = Append(httpRequests, stock_code)
                   /\ response' = r
                   /\ IF close = "raise"
                      THEN /\ RunRaises("SpanError")
                           /\ UNCHANGED news
                      ELSE /\ news' = fetch_news(r)
                           /\ pc' = "fetched"
                           /\ UNCHANGED <<outcome, raised>>
           /\ UNCHANGED <<company_name, directory, collector, stock_code, llmCalls,
                          llmResponse, result>>

\* A run that gives up when the fetch failed.
FetchReturnFailFast ==
    /\ pc = "fetched"
    /\ response' = NoResponse
    /\ IF StartsWith(news, ErrorPrefix)
       THEN /\ pc' = "done"
            /\ outcome' = "returned"
            /\ result' = [kind |-> "error", error |-> news, profile |-> NoProfile]
       ELSE /\ pc' = "analyze"
            /\ UNCHANGED <<outcome, result>>
    /\ UNCHANGED <<company_name, directory, collector, stock_code, news, httpRequests,
                   llmCalls, llmResponse, spans, raised>>

\* fetch_news has returned: its locals (response, data, news_items) are gone and
\* run() goes on to its step 3.
FetchReturn ==
    /\ pc = "fetched"
    /\ pc' = "analyze"
    /\ response' = NoResponse
    /\ UNCHANGED <<company_name, directory, collector, stock_code, news, httpRequests,
                   llmCalls, llmResponse, spans, outcome, result, raised>>

\* result = self.analyze_sentiment(company_name, stock_code, news); return result
AnalyzeSentiment ==
    /\ pc = "analyze"
    /\ \E open \in SpanOutcomes, close \in SpanOutcomes, c \in Completions :
           /\ spans' = Append(spans, Span("Sentiment Parsing", open, close))
           /\ pc' = "done"
           /\ IF open = "raise"
              THEN /\ outcome' = "raised"
                   /\ raised' = "SpanError"
                   /\ UNCHANGED <<llmCalls, llmResponse, result>>
              ELSE LET got == sentiment_chain_run(c)
                   IN  /\ llmCalls' = Append(llmCalls, Prompt(company_name, stock_code, news))
                       /\ llmResponse' = c
                       /\ IF close = "raise"
                          THEN /\ outcome' = "raised"
                               /\ raised' = "SpanError"
                               /\ UNCHANGED result
                          ELSE IF got.kind = "raise"
                          THEN /\ outcome' = "raised"
                               /\ raised' = got.exc
                               /\ UNCHANGED result
                          ELSE /\ outcome' = "returned"
                               /\ result' = ProfileResult(got.val)
                               /\ UNCHANGED raised
           /\ UNCHANGED <<company_name, directory, collector, stock_code, response, news,
                          httpRequests>>

\* run() is over; the analyzer is ready for the next call.
Finish ==
    /\ pc = "done"
    /\ pc' = "idle"
    /\ company_name' = "<none>"
    /\ stock_code' = "<unset>"
    /\ response' = NoResponse
    /\ news' = Unset
    /\ httpRequests' = << >>
    /\ llmCalls' = << >>
    /\ llmResponse' = NoCompletion
    /\ spans' = << >>
    /\ outcome' = "running"
    /\ result' = NoResult
    /\ raised' = ""
    /\ UNCHANGED <<directory, collector>>

Next ==
    \/ \E name \in Names : Call(name)
    \/ Resolve
    \/ FetchNews
    \/ FetchReturn
    \/ AnalyzeSentiment
    \/ Finish

\* The pipeline with a tracing collector that answers.
Spec == Init /\ [][Next]_vars

\* The pipeline with a tracing collector that may be down.
SpecTrace == InitTrace /\ [][Next]_vars

----------------------------------------------------------------------------
(* Properties *)

Keys == {"Apple Inc", "Microsoft", "Google"}

\* The run resolved a ticker: get_stock_code has returned a code of the table.
Resolved == pc \in {"fetch", "fetched", "analyze", "done"} /\ stock_code \in {"AAPL", "MSFT", "GOOGL"}

\* C1: for a company name that is no key of the directory, run() ends by
\* returning {"error": "Stock code for <name> not found."} with the name
\* verbatim, and it has issued no news request and no LLM call.
C1_UnknownNameReturnsError ==
    (pc \notin {"idle", "resolve"} /\ company_name \notin Keys) =>
        /\ pc = "done"
        /\ outcome = "returned"
        /\ raised = ""
        /\ result.kind = "error"
        /\ result.error = <<"Stock code for ", company_name, " not found.">>
        /\ httpRequests = << >>
        /\ llmCalls = << >>
        /\ Len(spans) = 1

C1_Witness ==
    /\ pc = "done"
    /\ company_name = "Unknown Corp"
    /\ result.error = <<"Stock code for ", "Unknown Corp", " not found.">>

\* C9: get_stock_code returns the configured ticker for a key of the directory,
\* "Unknown" for every other name, a differently-cased key included; it does not
\* raise and the directory stays as configured.
C9_LookupIsCaseSensitiveAndPure ==
    /\ directory = stock_code_lookup
    /\ Len(spans) >= 1 =>
        /\ company_name = "Apple Inc" => stock_code = "AAPL"
        /\ company_name = "Microsoft" => stock_code = "MSFT"
        /\ company_name = "Google" => stock_code = "GOOGL"
        /\ company_name \notin Keys => stock_code = "Unknown"
    /\ Len(spans) = 1 => outcome # "raised"

C9_Witness ==
    /\ company_name = "microsoft"
    /\ stock_code = "Unknown"
    /\ Len(spans) = 1

\* The first min(n, 5) items of the answer's `news` list.
FirstFive(r) == 1 .. (IF Len(r.items) < 5 THEN Len(r.items) ELSE 5)

\* raise_for_status passed and response.json() gave a JSON object.
SuccessfulObject(r) == r.net = "ok" /\ r.status < 400 /\ r.body = "object"

\* C7: on a successful answer whose body is a JSON object, fetch_news returns
\* "No news found." when `news` is missing or an empty list; when `news` is a
\* list of n > 0 items, the first min(n, 5) of them objects whose title is a
\* string or absent (absent reads as ""), it returns their titles joined by
\* newline in the order received, or "No news found." when that string is empty;
\* five or more titled items give exactly five titles.
C7_TitlesOfFirstFiveJoined ==
    (pc = "fetched" /\ SuccessfulObject(response)) =>
        LET items == response.items
            title(i) == IF items[i] = "notitle" THEN << >> ELSE <<items[i]>>
            joined == Join(<<"\n">>, [i \in FirstFive(response) |-> title(i)])
        IN  /\ (response.news = "missing" \/ (response.news = "list" /\ items = << >>))
                   => news = <<"No news found.">>
            /\ ( /\ response.news = "list"
                 /\ items # << >>
                 /\ \A i \in FirstFive(response) : items[i] \in {"a", "b", "notitle"} )
                   => news = IF joined = << >> THEN <<"No news found.">> ELSE joined
            /\ ( /\ response.news = "list"
                 /\ Len(items) >= 5
                 /\ \A i \in 1 .. 5 : items[i] \in {"a", "b"} )
                   => /\ Len(news) = 9
                      /\ \A i \in 1 .. 5 : news[2 * i - 1] = items[i]
                      /\ \A i \in 1 .. 4 : news[2 * i] = "\n"

C7_Witness ==
    /\ pc = "fetched"
    /\ response.status = 200
    /\ response.items = <<"a", "b", "b", "a", "b", "a">>
    /\ news = <<"a", "\n", "b", "\n", "b", "\n", "a", "\n", "b">>

\* The answer is one of the failures C2 lists: a network error, a status that is
\* not 2xx, a body that is not JSON, a JSON body that is no object, a `news` that
\* is present and no list, an item that is no object or a title that is no string.
ListedFailure(r) ==
    \/ r.net = "error"
    \/ r.status \notin 200 .. 299
    \/ r.body # "object"
    \/ r.news \notin {"missing", "list"}
    \/ \E i \in DOMAIN r.items : r.items[i] \in {"nonobject", "nonstring"}

\* C2 as claimed: every listed failure of the news request makes fetch_news
\* return a string that starts with "Error fetching news: ".
C2_EveryListedFailureGivesErrorString ==
    (pc = "fetched" /\ ListedFailure(response)) =>
        StartsWith(news, <<"Error fetching news: ">>)

\* The failures that make a statement of the try block raise.
RaisingFailure(r) ==
    \/ r.net = "error"
    \/ r.status >= 400
    \/ r.body # "object"
    \/ r.news \in {"true", "num", "str", "obj"}
    \/ r.news = "list" /\ \E i \in FirstFive(r) : r.items[i] \in {"nonobject", "nonstring"}

\* C2 (amended): fetch_news never raises.  A network error, a 4xx or 5xx status,
\* a body that is not JSON, a JSON body that is no object, a truthy `news` that
\* is no list, and a non-object item or non-string title among the first five
\* items each give a string that starts with "Error fetching news: "; a falsy
\* `news` that is no list (null, false, 0, "", {}) gives "No news found."; and a
\* run that issued the request never returns an error object nor raises anything
\* but what the LLM stage raises.
C2_FetchFailureBecomesText ==
    /\ pc = "fetched" =>
        /\ outcome = "running"
        /\ raised = ""
        /\ RaisingFailure(response) => StartsWith(news, <<"Error fetching news: ">>)
        /\ (SuccessfulObject(response)
              /\ response.news \in {"null", "false", "zero", "emptystr", "emptyobj"})
               => news = <<"No news found.">>
    /\ httpRequests # << >> =>
        /\ result.kind # "error"
        /\ raised \in {"", "OutputParserException", "APIError"}

C2_Witness ==
    /\ pc = "fetched"
    /\ response.net = "error"
    /\ news = <<"Error fetching news: ", "requests.get">>

\* A non-empty string of titles and newlines.
HeadlineBundle(s) == s # << >> /\ \A i \in DOMAIN s : s[i] \in {"a", "b", "\n"}

\* C4 as claimed: analyze_sentiment is only invoked with a resolved ticker and a
\* news text that is a non-empty bundle of headlines or "No news found.".
C4_OnlyHeadlinesOrPlaceholder ==
    \A i \in DOMAIN llmCalls :
        /\ llmCalls[i].stock_code # "Unknown"
        /\ HeadlineBundle(llmCalls[i].news) \/ llmCalls[i].news = <<"No news found.">>

\* C4 (amended): analyze_sentiment is only invoked with a resolved ticker and a
\* news text that is a non-empty newline-joined string of titles, the
\* placeholder "No news found.", or a string that starts with "Error fetching
\* news: "; it is never the empty string.
C4_NeverEmptyNewsNorUnknownTicker ==
    \A i \in DOMAIN llmCalls :
        /\ llmCalls[i].stock_code \in {"AAPL", "MSFT", "GOOGL"}
        /\ llmCalls[i].news # << >>
        /\ \/ HeadlineBundle(llmCalls[i].news)
           \/ llmCalls[i].news = <<"No news found.">>
           \/ StartsWith(llmCalls[i].news, <<"Error fetching news: ">>)

C4_Witness ==
    /\ Len(llmCalls) = 1
    /\ llmCalls[1].news = <<"No news found.">>
    /\ llmCalls[1].stock_code = "GOOGL"

StageNames == <<"Stock Code Extraction", "News Fetching", "Sentiment Parsing">>

\* C10: a run with a resolved ticker goes through ResolveTicker, FetchNews and
\* ExtractSentiment once each and in that order: one GET for the ticker, then,
\* after fetch_news has returned, one LLM call whose news text is what
\* fetch_news returned, whatever it returned.
C10_OneFetchThenOneLLMCall ==
    /\ Len(httpRequests) <= 1
    /\ Len(llmCalls) <= 1
    /\ Len(spans) <= 3
    /\ \A i \in DOMAIN spans : spans[i].name = StageNames[i]
    /\ llmCalls # << >> => (pc = "done" /\ Len(httpRequests) = 1 /\ news # Unset)
    /\ Resolved =>
        /\ pc = "fetch" => (httpRequests = << >> /\ llmCalls = << >> /\ Len(spans) = 1)
        /\ pc \in {"fetched", "analyze"} =>
               (httpRequests = <<stock_code>> /\ llmCalls = << >> /\ Len(spans) = 2)
        /\ pc = "done" =>
               /\ httpRequests = <<stock_code>>
               /\ Len(llmCalls) = 1
               /\ llmCalls[1].news = news
               /\ Len(spans) = 3

C10_Witness ==
    /\ pc = "done"
    /\ Resolved
    /\ Len(httpRequests) = 1
    /\ Len(llmCalls) = 1
    /\ llmCalls[1].news = <<"Error fetching news: ", "raise_for_status">>

\* The completion is a JSON object with the ten keys, each value of its schema
\* type, and a sentiment among the three the schema names.
WellFormed(c) ==
    /\ c.kind = "text"
    /\ c.json
    /\ c.present = Fields
    /\ c.wrongType = {}
    /\ c.sentiment \in {"Positive", "Negative", "Neutral"}

C6_SchemaFailureIsHardError ==
    ( /\ pc = "done"
      /\ llmResponse.kind = "text"
      /\ (~llmResponse.json \/ llmResponse.present # Fields \/ llmResponse.wrongType # {}) )
        => (outcome = "raised" /\ result.kind = "none")

\* C8 as claimed: a successful run for a name of the directory returns a
\* profile whose company_name is the input name and whose stock_code is the
\* looked-up ticker.
C8_ProfileNamesTheInputCompany ==
    (pc = "done" /\ outcome = "returned" /\ company_name \in Keys) =>
        /\ result.profile.company_name = company_name
        /\ result.profile.stock_code = stock_code_lookup[company_name]

\* C8 (amended): in a successful run for a name of the directory the prompt
\* sent to the LLM embeds the input name and the looked-up ticker, and the
\* profile returned carries the company_name and stock_code of the LLM's
\* response, so they equal the input name and its ticker exactly when the
\* response echoes them.
C8_PromptNamesTheInputCompany ==
    (pc = "done" /\ outcome = "returned" /\ company_name \in Keys) =>
        /\ Len(llmCalls) = 1
        /\ llmCalls[1].company_name = company_name
        /\ llmCalls[1].stock_code = stock_code_lookup[company_name]
        /\ result.kind = "profile"
        /\ result.profile.company_name = llmResponse.company_name
        /\ result.profile.stock_code = llmResponse.stock_code

C8_Witness ==
    /\ pc = "done"
    /\ outcome = "returned"
    /\ company_name = "Microsoft"
    /\ result.profile.company_name = "Microsoft"
    /\ result.profile.stock_code = "MSFT"

\* C3: a span that fails to open or to close changes nothing: the stage it
\* wraps still hands its value to run(), and run() ends as it would have.
C3_SpanFailureChangesNothing ==
    /\ \A i \in DOMAIN spans : SpanFailed(spans[i]) => raised # "SpanError"
    /\ (Len(spans) >= 1 /\ SpanFailed(spans[1])) =>
           stock_code = Lookup(directory, company_name)
    /\ (Len(spans) >= 2 /\ spans[2].close = "raise") => news = fetch_news(response)

=============================================================================
